---- MODULE Spec2Model ----
(***************************************************************************)
(* A model of app/databaseAccess/databaseAccess.go: the database access    *)
(* functions (initDb, createSampleTable, insertSampleData, ...), the two   *)
(* demonstration pipelines (showExamplesWithSqlLite,                       *)
(* showExamplesWithPostgres), the configuration loader (loadPgParams) and  *)
(* main.                                                                   *)
(*                                                                         *)
(* Text is modelled as a sequence of tokens: a token is one character      *)
(* ("=", "5", "a") or an indivisible run of characters that contains no    *)
(* "=" and no digit ("user", "docker").  The empty string is <<>>.         *)
(*                                                                         *)
(* The database/sql library is modelled by what the program can observe:   *)
(* a store (table foo: present or not, and its committed rows), the        *)
(* transaction of the running insertSampleData with its uncommitted        *)
(* writes, the transactions that returned calls left open, and the state   *)
(* of each session handle.  Every driver call may fail: that is a          *)
(* nondeterministic choice of the environment.                             *)
(***************************************************************************)
EXTENDS Integers, Sequences, FiniteSets, TLC

VARIABLES
    pc,        \* position of main and of the running pipeline
    args,      \* os.Args[1:], a sequence of file names (at most one is read)
    cfgFile,   \* the lines of the configuration file
    cfgOpens,  \* whether os.Open of the configuration file succeeds
    cfgIdx,    \* number of lines the bufio.Scanner has delivered
    out,       \* loadPgParams: the PostgresDb under construction / returned
    params,    \* main: the parameters given to showExamplesWithPostgres
    err,       \* the error returned by the last operation (Nil: none)
    lowErr,    \* the library or driver error that made the last operation fail
    handle,    \* handle[b]: state of the *sql.DB of backend b
    store,     \* store[b]: the data behind backend b (file ./foo.db / server)
    tx,        \* the transaction of the running insertSampleData
    stmt,      \* the prepared statement of the running insertSampleData
    insPc,     \* position inside insertSampleData
    insI,      \* loop variable i of insertSampleData
    insDb,     \* the backend insertSampleData was called on
    leaked,    \* leaked[b]: transactions returned calls left open on b
    stages,    \* stages[b]: the stages the pipeline of b has executed
    reported,  \* reported[b]: what the pipeline of b reported, with the stage
    printed,   \* the rows the last select printed
    hist       \* the calls a client of the layer has completed (SpecOps)

vars == <<pc, args, cfgFile, cfgOpens, cfgIdx, out, params, err, lowErr,
          handle, store, tx, stmt, insPc, insI, insDb, leaked, stages,
          reported, printed, hist>>

\* ------------------------------------------------------------------ bounds

\* Longest configuration file, in lines.
MaxLines == 3
\* Number of calls the client of SpecOps makes.
MaxCalls == 2

\* ------------------------------------------------------------------ errors

Nil == [msg |-> "nil"]

\* An error raised by a library below the layer (database/sql, a driver, os,
\* strconv): it has no cause.
LibError(what) == [msg |-> what, cause |-> Nil]

\* errors.New(msg): a new error without any cause.
ErrorsNew(msg) == [msg |-> msg, cause |-> Nil]

\* errors.Wrap(e, msg): msg in front of e, e kept as the cause.
ErrorsWrap(e, msg) == [msg |-> msg, cause |-> e]

\* The causal chain of e: e, its cause, the cause of its cause, ...
RECURSIVE Chain(_)
Chain(e) == IF e = Nil THEN {} ELSE {e} \cup Chain(e.cause)

\* --------------------------------------------------------- text primitives

Digits == <<"0", "1", "2", "3", "4", "5", "6", "7", "8", "9">>

DigitValue(t) == (CHOOSE k \in 1..10 : Digits[k] = t) - 1

IsDigit(t) == \E k \in 1..10 : Digits[k] = t

\* strings.Split(line, "="): the pieces between the "=" characters; a line
\* without "=" (the empty line too) gives one piece.
RECURSIVE Split(_)
Split(line) ==
    IF \A k \in 1..Len(line) : line[k] # "="
    THEN <<line>>
    ELSE LET k == CHOOSE j \in 1..Len(line) :
                      line[j] = "=" /\ \A h \in 1..(j - 1) : line[h] # "="
         IN  <<SubSeq(line, 1, k - 1)>> \o Split(SubSeq(line, k + 1, Len(line)))

RECURSIVE DecimalValue(_)
DecimalValue(ds) ==
    IF ds = <<>> THEN 0
    ELSE 10 * DecimalValue(SubSeq(ds, 1, Len(ds) - 1)) + DigitValue(ds[Len(ds)])

\* strconv.Atoi(value): an optional sign and at least one digit, nothing
\* else; a syntax error gives 0 and an error.
Atoi(value) ==
    LET signed == value # <<>> /\ value[1] \in {"+", "-"}
        ds     == IF signed THEN Tail(value) ELSE value
    IN  IF ds # <<>> /\ \A k \in 1..Len(ds) : IsDigit(ds[k])
        THEN [n   |-> IF signed /\ value[1] = "-"
                      THEN 0 - DecimalValue(ds) ELSE DecimalValue(ds),
              err |-> Nil]
        ELSE [n |-> 0, err |-> LibError("strconv.Atoi: invalid syntax")]

\* fmt's %d of a number.
RECURSIVE Itoa(_)
Itoa(n) ==
    IF n < 0 THEN <<"-">> \o Itoa(0 - n)
    ELSE IF n < 10 THEN <<Digits[n + 1]>>
    ELSE Itoa(n \div 10) \o <<Digits[(n % 10) + 1]>>

\* ------------------------------------------------------------ PostgresDb

\* PostgresDb{}: every field has its zero value.
ZeroPostgresDb ==
    [host |-> <<>>, port |-> 0, dbname |-> <<>>, user |-> <<>>,
     password |-> <<>>, sslmode |-> <<>>]

\* The default configuration of main.
DefaultParams ==
    [host |-> <<"localhost">>, port |-> 5432, dbname |-> <<"postgres">>,
     user |-> <<"docker">>, password |-> <<"docker">>,
     sslmode |-> <<"require">>]

buildConnectionString(p) ==
    <<"user", "=">> \o p.user \o <<" ", "password", "=">> \o p.password
    \o <<" ", "dbname", "=">> \o p.dbname \o <<" ", "host", "=">> \o p.host
    \o <<" ", "port", "=">> \o Itoa(p.port)
    \o <<" ", "sslmode", "=">> \o p.sslmode

\* ---------------------------------------------------------- loadPgParams

\* The lines configuration files are drawn from.
CfgLines ==
    { <<"user", "=", "docker">>,
      <<"host", "=", "db", "=", "1">>,
      <<"sslmode", "=", "require">>,
      <<"port", "=", "5", "4">>,
      <<"port", "=", "a">>,
      <<"port", "=">>,
      <<"color", "=", "docker">>,
      <<"user">>,
      <<>> }

RECURSIVE SeqsUpTo(_, _)
SeqsUpTo(S, n) ==
    IF n = 0 THEN {<<>>}
    ELSE LET shorter == SeqsUpTo(S, n - 1)
         IN  shorter \cup {Append(f, l) : f \in {g \in shorter : Len(g) = n - 1}, l \in S}

CfgFiles == SeqsUpTo(CfgLines, MaxLines)

\* The body of the scanner loop for one line, from the record o: the new
\* record, and how the iteration ends: "next" (go on with the next line),
\* "return" (with the error e) or "panic" (index out of range, elements[1]).
scanLine(o, line) ==
    LET elements == Split(line)
    IN  IF Len(elements) < 2
        THEN [out |-> o, end |-> "panic", err |-> Nil, low |-> Nil]
        ELSE
        LET key   == elements[1]
            value == elements[2]
            go(r) == [out |-> r, end |-> "next", err |-> Nil, low |-> Nil]
        IN  CASE key = <<"user">>     -> go([o EXCEPT !.user = value])
              [] key = <<"password">> -> go([o EXCEPT !.password = value])
              [] key = <<"dbname">>   -> go([o EXCEPT !.dbname = value])
              [] key = <<"host">>     -> go([o EXCEPT !.host = value])
              [] key = <<"port">>     ->
                    LET a == Atoi(value)
                    IN  IF a.err # Nil
                        THEN [out |-> [o EXCEPT !.port = a.n],
                              end |-> "return",
                              err |-> ErrorsNew(<<"The port you have set '">>
                                        \o value \o <<"' for the database is not an integer. Please fix the configuration.">>),
                              low |-> a.err]
                        ELSE go([o EXCEPT !.port = a.n])
              [] key = <<"sslmode">>  -> go([o EXCEPT !.sslmode = value])
              [] OTHER                -> go(o)

\* The whole scanner loop, from the record o over the lines that are left.
RECURSIVE scanLines(_, _)
scanLines(o, lines) ==
    IF lines = <<>>
    THEN [out |-> o, end |-> "return", err |-> Nil, low |-> Nil]
    ELSE LET r == scanLine(o, Head(lines))
         IN  IF r.end = "next" THEN scanLines(r.out, Tail(lines)) ELSE r

\* os.Open failed: the zero record and the wrapped error.
cfgOpenFailure ==
    LET e == LibError("open: no such file or directory")
    IN  [out |-> ZeroPostgresDb, end |-> "return",
         err |-> ErrorsWrap(e, "cannot open configuration file containing informations to connect to the database"),
         low |-> e]

\* loadPgParams(pgfile), as one step: what it returns, or that it panics.
loadPgParams(opens, lines) ==
    IF ~opens THEN cfgOpenFailure ELSE scanLines(ZeroPostgresDb, lines)

\* ------------------------------------------------------------- the stores

Backends == {"lite", "pg"}

\* Number of rows insertSampleData inserts.
SampleRows == 10

\* fmt's %03d of a number below 1000.
Pad3(n) ==
    <<Digits[(n \div 100) + 1], Digits[((n \div 10) % 10) + 1], Digits[(n % 10) + 1]>>

\* The row of iteration i of insertSampleData: the name is
\* fmt.Sprintf("%03d", i, name), which has one argument too many.
SampleRow(i) ==
    [id   |-> i,
     name |-> Pad3(i) \o <<"%!(EXTRA string=", "nom">> \o Pad3(i) \o <<")">>]

\* The rows of the insert statement of insertDataAndSelectThem.
LiteralRows ==
    {[id |-> 1, name |-> <<"foo">>], [id |-> 2, name |-> <<"bar">>],
     [id |-> 3, name |-> <<"baz">>]}

Ids(rows) == {r.id : r \in rows}

\* A store without anything: no file ./foo.db, no table foo.
EmptyStore == [file |-> FALSE, table |-> FALSE, rows |-> {}]

NoTx == [state |-> "none", writes |-> {}]

\* What a query on a connection of the pool sees of table foo: the committed
\* rows.  The writes of an open transaction live on the connection the
\* transaction holds.
SelectView(st) == st.rows

\* The rows in the order a cursor delivers them (by primary key).
RECURSIVE InOrder(_)
InOrder(rows) ==
    IF rows = {} THEN <<>>
    ELSE LET r == CHOOSE x \in rows : \A y \in rows : x.id <= y.id
         IN  <<r>> \o InOrder(rows \ {r})

Range(f) == {f[k] : k \in DOMAIN f}

\* db.Query("select id, name from foo;") and the loop over its rows, as
\* selectDataInSampleTable and insertDataAndSelectThem write it: what is
\* printed and what is returned.  The query fails when there is no table or
\* when the driver fails; Scan may fail on any row; rows.Err may report that
\* the iteration ended early.
QueryOutcomes(st, mQuery, mScan, mErr) ==
    LET all == InOrder(SelectView(st))
        n   == Len(all)
        first(k) == Range(SubSeq(all, 1, k))
    IN  IF ~st.table
        THEN {[printed |-> {}, low |-> LibError("no such table: foo"),
               err |-> ErrorsWrap(LibError("no such table: foo"), mQuery)]}
        ELSE {[printed |-> first(n), low |-> Nil, err |-> Nil]}
             \cup {[printed |-> {}, low |-> LibError("driver: query"),
                    err |-> ErrorsWrap(LibError("driver: query"), mQuery)]}
             \cup {[printed |-> first(k - 1), low |-> LibError("sql: Scan error"),
                    err |-> ErrorsWrap(LibError("sql: Scan error"), mScan)] : k \in 1..n}
             \cup {[printed |-> first(k), low |-> LibError("driver: rows"),
                    err |-> ErrorsWrap(LibError("driver: rows"), mErr)] : k \in 0..n}

\* -------------------------------------------------- the access functions
\* Each of them fixes err', lowErr', store', printed' and handle'.

\* A statement run by db.Exec failed with the library error e.
ExecFailed(e, msg) ==
    /\ err' = ErrorsWrap(e, msg)
    /\ lowErr' = e
    /\ UNCHANGED <<store, printed, handle>>

ExecDone(b, newStore) ==
    /\ err' = Nil
    /\ lowErr' = Nil
    /\ store' = [store EXCEPT ![b] = newStore]
    /\ UNCHANGED <<printed, handle>>

\* initDb(dbfile): os.Remove, whose error is only logged, then sql.Open.
initDb(b) ==
    /\ \E removed \in BOOLEAN :
          /\ removed => store[b].file
          /\ store' = [store EXCEPT ![b] = IF removed THEN EmptyStore ELSE @]
    /\ \/ /\ handle' = [handle EXCEPT ![b] = "open"]
          /\ err' = Nil
          /\ lowErr' = Nil
       \/ /\ err' = ErrorsWrap(LibError("sql: open"), "Failed to open the database.")
          /\ lowErr' = LibError("sql: open")
          /\ UNCHANGED handle
    /\ UNCHANGED printed

connectToPostgres(b, connStr) ==
    /\ \/ /\ handle' = [handle EXCEPT ![b] = "open"]
          /\ err' = Nil
          /\ lowErr' = Nil
       \/ /\ err' = ErrorsWrap(LibError("sql: open"),
                       <<"Failed to connect to the database with parameters '">>
                       \o connStr \o <<"'">>)
          /\ lowErr' = LibError("sql: open")
          /\ UNCHANGED handle
    /\ UNCHANGED <<store, printed>>

createSampleTable(b) ==
    LET msg == "Failed to create the sample table in the database."
    IN  IF store[b].table
        THEN ExecFailed(LibError("table foo already exists"), msg)
        ELSE \/ ExecDone(b, [file |-> TRUE, table |-> TRUE, rows |-> {}])
             \/ ExecFailed(LibError("driver: exec"), msg)

deleteSampleTableIfExists(b) ==
    \/ ExecDone(b, [store[b] EXCEPT !.table = FALSE, !.rows = {}])
    \/ ExecFailed(LibError("driver: exec"), "Failed to execute drop statement")

cleanupSampleTabledb(b) ==
    LET msg == "failed to delete rows from the table foo"
    IN  IF ~store[b].table
        THEN ExecFailed(LibError("no such table: foo"), msg)
        ELSE \/ ExecDone(b, [store[b] EXCEPT !.rows = {}])
             \/ ExecFailed(LibError("driver: exec"), msg)

selectDataInSampleTable(b) ==
    /\ \E o \in QueryOutcomes(store[b], "Failed to prepare select query.",
                              "failed to scan output of query.",
                              "error in the select query.") :
          /\ printed' = o.printed
          /\ err' = o.err
          /\ lowErr' = o.low
    /\ UNCHANGED <<store, handle>>

\* The insert of three rows in one statement (all of them or none), then the
\* query; the statement is run outside any transaction and its rows are
\* committed at once.
insertDataAndSelectThem(b) ==
    LET msg == "failed to insert data into table foo"
        low == IF ~store[b].table THEN LibError("no such table: foo")
               ELSE IF Ids(LiteralRows) \cap Ids(store[b].rows) # {}
               THEN LibError("UNIQUE constraint failed: foo.id")
               ELSE Nil
    IN  IF low # Nil
        THEN ExecFailed(low, msg)
        ELSE \/ ExecFailed(LibError("driver: exec"), msg)
             \/ /\ store' = [store EXCEPT ![b].rows = @ \cup LiteralRows]
                /\ \E o \in QueryOutcomes(store'[b], "failed to query table foo",
                                 "Failed to read values from the row.",
                                 "Error happened while reading the rows.") :
                      /\ printed' = o.printed
                      /\ err' = o.err
                      /\ lowErr' = o.low
                /\ UNCHANGED handle

\* ------------------------------------------------------ insertSampleData
\* The function runs step by step: db.Begin, tx.Prepare, one stmt.Exec per
\* turn of the loop, tx.Commit.  insPc = "ret" is the moment it returns; err
\* is then what it returns.

insVars == <<tx, stmt, insPc, insI, insDb, leaked>>

\* The call: the frame is set up, nothing has run yet.
insertSampleDataCall(b) ==
    /\ insPc = "idle"
    /\ insPc' = "begin"
    /\ insDb' = b
    /\ insI' = 0
    /\ tx' = NoTx
    /\ stmt' = "none"
    /\ UNCHANGED leaked

\* A step of the function failed with the library error e: the error is
\* wrapped and returned.  Nothing is done to the transaction on the way out;
\* the deferred stmt.Close() runs if the statement was prepared.
insFail(e, msg) ==
    /\ err' = ErrorsWrap(e, msg)
    /\ lowErr' = e
    /\ insPc' = "ret"
    /\ stmt' = IF stmt = "open" THEN "closed" ELSE stmt
    /\ UNCHANGED <<tx, store, insI, insDb, leaked>>

dbBegin ==
    /\ insPc = "begin"
    /\ \/ /\ tx' = [state |-> "open", writes |-> {}]
          /\ insPc' = "prepare"
          /\ UNCHANGED <<err, lowErr, store, stmt, insI, insDb, leaked>>
       \/ insFail(LibError("driver: begin"), "Failed to create a transaction..")

txPrepare ==
    /\ insPc = "prepare"
    /\ IF ~store[insDb].table
       THEN insFail(LibError("no such table: foo"), "Failed to create prepared statement.")
       ELSE \/ /\ stmt' = "open"
               /\ insPc' = "loop"
               /\ UNCHANGED <<err, lowErr, store, tx, insI, insDb, leaked>>
            \/ insFail(LibError("driver: prepare"), "Failed to create prepared statement.")

\* The statement run outside the transaction: the row is committed at once.
stmtExecAutocommit(row) ==
    /\ store' = [store EXCEPT ![insDb].rows = @ \cup {row}]
    /\ UNCHANGED tx

\* stmt.Exec(i, ...) inside the transaction: the row joins the writes of the
\* transaction; a key that is already used, by a committed row or by a row of
\* the transaction, makes the statement fail.
stmtExec(row) ==
    /\ tx' = [tx EXCEPT !.writes = @ \cup {row}]
    /\ UNCHANGED store

insLoop ==
    /\ insPc = "loop"
    /\ insI < SampleRows
    /\ LET msg == "Failed to insert sample data in the sample table."
       IN  IF insI \in Ids(store[insDb].rows) \cup Ids(tx.writes)
           THEN insFail(LibError("UNIQUE constraint failed: foo.id"), msg)
           ELSE \/ /\ stmtExec(SampleRow(insI))
                   /\ insI' = insI + 1
                   /\ UNCHANGED <<err, lowErr, stmt, insPc, insDb, leaked>>
                \/ insFail(LibError("driver: exec"), msg)

\* tx.Commit(): the writes become committed rows.  A failed commit ends the
\* transaction without them.
txCommit ==
    /\ insPc = "loop"
    /\ insI = SampleRows
    /\ insPc' = "ret"
    /\ stmt' = "closed"
    /\ \/ /\ tx' = [state |-> "committed", writes |-> {}]
          /\ store' = [store EXCEPT ![insDb].rows = @ \cup tx.writes]
          /\ err' = Nil
          /\ lowErr' = Nil
       \/ /\ tx' = [state |-> "failed", writes |-> {}]
          /\ err' = ErrorsWrap(LibError("driver: commit"), "Failed to commit the transaction.")
          /\ lowErr' = LibError("driver: commit")
          /\ UNCHANGED store
    /\ UNCHANGED <<insI, insDb, leaked>>

\* The caller has the result: the frame is gone.  A transaction that is
\* still open stays open on its connection, out of reach.
insertSampleDataReturn ==
    /\ insPc = "ret"
    /\ insPc' = "idle"
    /\ leaked' = [leaked EXCEPT ![insDb] = @ + (IF tx.state = "open" THEN 1 ELSE 0)]
    /\ tx' = NoTx
    /\ stmt' = "none"
    /\ UNCHANGED <<insI, insDb>>

\* ------------------------------------------------------------ pipelines

cfgVars == <<args, cfgFile, cfgOpens, cfgIdx, out>>

\* The error of the given stage is written to the output of b.
Report(b, stage) ==
    reported' = [reported EXCEPT ![b] = Append(@, [stage |-> stage, err |-> err'])]

\* printStackTrace(err): the stack trace, when the error has one, and the error.
printStackTrace(b, stage) == Report(b, stage)

\* log.Fatal(err): the error is printed and os.Exit(1) ends the process; no
\* deferred call runs.
logFatal(b, stage) ==
    /\ Report(b, stage)
    /\ pc' = "exited"

Ran(b, ss) == stages' = [stages EXCEPT ![b] = @ \o ss]

\* The check without its return: the error is printed and the pipeline goes on.
CheckWithoutReturn(b, ss, next, onErr) ==
    /\ Ran(b, ss)
    /\ pc' = next
    /\ IF err' = Nil
       THEN UNCHANGED reported
       ELSE printStackTrace(b, ss[Len(ss)])

\* "if err != nil { printStackTrace(err); return }" after the stages ss: on
\* an error the pipeline goes to onErr, else to next.
Check(b, ss, next, onErr) ==
    /\ Ran(b, ss)
    /\ IF err' = Nil
       THEN pc' = next /\ UNCHANGED reported
       ELSE pc' = onErr /\ printStackTrace(b, ss[Len(ss)])

\* The stages insertDataAndSelectThem has run when it returns.
LiteralStages ==
    IF err' # Nil /\ err'.msg = "failed to insert data into table foo"
    THEN <<"literal_insert">> ELSE <<"literal_insert", "select">>

\* showExamplesWithSqlLite ------------------------------------------------

LiteOpen ==
    /\ pc = "lite_open"
    /\ initDb("lite")
    /\ Check("lite", <<"open">>, "lite_create", "main_params")
    /\ UNCHANGED <<cfgVars, params, insVars, hist>>

LiteCreate ==
    /\ pc = "lite_create"
    /\ createSampleTable("lite")
    /\ Check("lite", <<"create">>, "lite_insert", "lite_close")
    /\ UNCHANGED <<cfgVars, params, insVars, hist>>

LiteInsert ==
    /\ pc = "lite_insert"
    /\ insertSampleDataCall("lite")
    /\ UNCHANGED <<pc, cfgVars, params, err, lowErr, handle, store, stages,
                   reported, printed, hist>>

LiteInsertDone ==
    /\ pc = "lite_insert"
    /\ insertSampleDataReturn
    /\ UNCHANGED <<err, lowErr>>
    /\ Check("lite", <<"insert">>, "lite_select", "lite_close")
    /\ UNCHANGED <<cfgVars, params, handle, store, printed, hist>>

LiteSelect ==
    /\ pc = "lite_select"
    /\ selectDataInSampleTable("lite")
    /\ Check("lite", <<"select">>, "lite_cleanup", "lite_close")
    /\ UNCHANGED <<cfgVars, params, insVars, hist>>

LiteCleanup ==
    /\ pc = "lite_cleanup"
    /\ cleanupSampleTabledb("lite")
    /\ Check("lite", <<"delete">>, "lite_literal", "lite_close")
    /\ UNCHANGED <<cfgVars, params, insVars, hist>>

LiteLiteral ==
    /\ pc = "lite_literal"
    /\ insertDataAndSelectThem("lite")
    /\ Check("lite", LiteralStages, "lite_close", "lite_close")
    /\ UNCHANGED <<cfgVars, params, insVars, hist>>

\* The deferred db.Close().
dbClose(b, next) ==
    /\ handle' = [handle EXCEPT ![b] = "closed"]
    /\ Ran(b, <<"close">>)
    /\ pc' = next
    /\ UNCHANGED <<cfgVars, params, err, lowErr, store, insVars, reported,
                   printed, hist>>

LiteClose == pc = "lite_close" /\ dbClose("lite", "main_params")

showExamplesWithSqlLite ==
    \/ LiteOpen \/ LiteCreate \/ LiteInsert \/ LiteInsertDone \/ LiteSelect
    \/ LiteCleanup \/ LiteLiteral \/ LiteClose

\* showExamplesWithPostgres -----------------------------------------------

PgConnect ==
    /\ pc = "pg_connect"
    /\ connectToPostgres("pg", buildConnectionString(params))
    /\ Check("pg", <<"open">>, "pg_drop", "done")
    /\ UNCHANGED <<cfgVars, params, insVars, hist>>

PgDrop ==
    /\ pc = "pg_drop"
    /\ deleteSampleTableIfExists("pg")
    /\ Check("pg", <<"drop">>, "pg_create", "pg_close")
    /\ UNCHANGED <<cfgVars, params, insVars, hist>>

PgCreate ==
    /\ pc = "pg_create"
    /\ createSampleTable("pg")
    /\ Check("pg", <<"create">>, "pg_insert", "pg_close")
    /\ UNCHANGED <<cfgVars, params, insVars, hist>>

PgInsert ==
    /\ pc = "pg_insert"
    /\ insertSampleDataCall("pg")
    /\ UNCHANGED <<pc, cfgVars, params, err, lowErr, handle, store, stages,
                   reported, printed, hist>>

PgInsertDone ==
    /\ pc = "pg_insert"
    /\ insertSampleDataReturn
    /\ UNCHANGED <<err, lowErr>>
    /\ Check("pg", <<"insert">>, "pg_select", "pg_close")
    /\ UNCHANGED <<cfgVars, params, handle, store, printed, hist>>

\* showExamplesWithPostgres without its last query.
PgSelectThenClose ==
    /\ pc = "pg_select"
    /\ selectDataInSampleTable("pg")
    /\ Check("pg", <<"select">>, "pg_close", "pg_close")
    /\ UNCHANGED <<cfgVars, params, insVars, hist>>

PgSelect ==
    /\ pc = "pg_select"
    /\ selectDataInSampleTable("pg")
    /\ Check("pg", <<"select">>, "pg_query", "pg_close")
    /\ UNCHANGED <<cfgVars, params, insVars, hist>>

\* The query on spatial_ref_sys and the loop over its rows: an error of
\* db.Query or of rows.Scan goes to log.Fatal.
PgQuery ==
    /\ pc = "pg_query"
    /\ Ran("pg", <<"query_srs">>)
    /\ \/ /\ pc' = "pg_close"
          /\ err' = Nil
          /\ lowErr' = Nil
          /\ UNCHANGED reported
       \/ \E e \in {LibError("driver: query"), LibError("sql: Scan error")} :
             /\ err' = e
             /\ lowErr' = e
             /\ logFatal("pg", "query_srs")
    /\ UNCHANGED <<cfgVars, params, handle, store, insVars, printed, hist>>

PgClose == pc = "pg_close" /\ dbClose("pg", "done")

showExamplesWithPostgres ==
    \/ PgConnect \/ PgDrop \/ PgCreate \/ PgInsert \/ PgInsertDone \/ PgSelect
    \/ PgQuery \/ PgClose

\* main -------------------------------------------------------------------

\* main between the two pipelines: the default parameters, replaced by those
\* of the file named by os.Args[1] when there is one.  An error of
\* loadPgParams is printed and main returns.
MainParams ==
    /\ pc = "main_params"
    /\ IF args = <<>>
       THEN /\ params' = DefaultParams
            /\ pc' = "pg_connect"
            /\ UNCHANGED <<err, lowErr, reported>>
       ELSE \E opens \in BOOLEAN, f \in CfgFiles :
               LET r == loadPgParams(opens, f)
               IN  IF r.end = "panic"
                   THEN /\ pc' = "panicked"
                        /\ params' = DefaultParams
                        /\ UNCHANGED <<err, lowErr, reported>>
                   ELSE /\ params' = r.out
                        /\ err' = r.err
                        /\ lowErr' = r.low
                        /\ IF r.err = Nil
                           THEN pc' = "pg_connect" /\ UNCHANGED reported
                           ELSE pc' = "done" /\ Report("main", "load")
    /\ UNCHANGED <<cfgVars, handle, store, insVars, stages, printed, hist>>

\* The steps of a running insertSampleData.
insertSampleData ==
    /\ \/ dbBegin \/ txPrepare \/ insLoop \/ txCommit
    /\ UNCHANGED <<pc, cfgVars, params, handle, stages, reported, printed, hist>>

\* What was left by earlier runs: ./foo.db of a run that went through, and
\* table foo of a run of showExamplesWithPostgres that went through.
LiteLeftover == [file |-> TRUE, table |-> TRUE, rows |-> LiteralRows]

PgLeftover ==
    [file |-> TRUE, table |-> TRUE, rows |-> {SampleRow(i) : i \in 0..(SampleRows - 1)}]

PgFresh == [file |-> TRUE, table |-> FALSE, rows |-> {}]

InitCommon ==
    /\ cfgIdx = 0
    /\ out = ZeroPostgresDb
    /\ params = ZeroPostgresDb
    /\ err = Nil
    /\ lowErr = Nil
    /\ tx = NoTx
    /\ stmt = "none"
    /\ insPc = "idle"
    /\ insI = 0
    /\ leaked = [b \in Backends |-> 0]
    /\ stages = [b \in Backends |-> <<>>]
    /\ reported = [b \in Backends \cup {"main"} |-> <<>>]
    /\ printed = {}

Init ==
    /\ InitCommon
    /\ pc = "lite_open"
    /\ args \in {<<>>, <<"pg.conf">>}
    /\ cfgFile = <<>>
    /\ cfgOpens = TRUE
    /\ handle = [b \in Backends |-> "unopened"]
    /\ store \in [lite : {EmptyStore, LiteLeftover}, pg : {PgFresh, PgLeftover}]
    /\ insDb = "lite"
    /\ hist = <<>>

Next == showExamplesWithSqlLite \/ MainParams \/ showExamplesWithPostgres \/ insertSampleData

Spec == Init /\ [][Next]_vars

\* ------------------------------------------- loadPgParams, line by line
\* SpecCfg runs loadPgParams alone, on every file of CfgFiles, one turn of the
\* scanner loop per step.

otherVars == <<handle, store, insVars, stages, reported, printed, hist, params>>

CfgOpen ==
    /\ pc = "cfg_open"
    /\ IF cfgOpens
       THEN /\ pc' = "cfg_scan"
            /\ UNCHANGED <<out, err, lowErr>>
       ELSE /\ pc' = "cfg_ret"
            /\ out' = cfgOpenFailure.out
            /\ err' = cfgOpenFailure.err
            /\ lowErr' = cfgOpenFailure.low
    /\ UNCHANGED <<args, cfgFile, cfgOpens, cfgIdx, otherVars>>

CfgScan ==
    /\ pc = "cfg_scan"
    /\ cfgIdx < Len(cfgFile)
    /\ LET r == scanLine(out, cfgFile[cfgIdx + 1])
       IN  /\ out' = r.out
           /\ err' = r.err
           /\ lowErr' = r.low
           /\ cfgIdx' = cfgIdx + 1
           /\ pc' = CASE r.end = "next"   -> "cfg_scan"
                      [] r.end = "return" -> "cfg_ret"
                      [] r.end = "panic"  -> "cfg_panic"
    /\ UNCHANGED <<args, cfgFile, cfgOpens, otherVars>>

CfgEof ==
    /\ pc = "cfg_scan"
    /\ cfgIdx = Len(cfgFile)
    /\ pc' = "cfg_ret"
    /\ err' = Nil
    /\ lowErr' = Nil
    /\ UNCHANGED <<args, cfgFile, cfgOpens, cfgIdx, out, otherVars>>

InitCfg ==
    /\ InitCommon
    /\ pc = "cfg_open"
    /\ args = <<"pg.conf">>
    /\ cfgFile \in CfgFiles
    /\ cfgOpens \in BOOLEAN
    /\ handle = [b \in Backends |-> "unopened"]
    /\ store = [lite |-> EmptyStore, pg |-> PgFresh]
    /\ insDb = "lite"
    /\ hist = <<>>

NextCfg == CfgOpen \/ CfgScan \/ CfgEof

SpecCfg == InitCfg /\ [][NextCfg]_vars

\* ------------------------------------------------ a client of the layer
\* SpecOps calls the access functions on one open session, in any order,
\* MaxCalls times.  hist is the list of the completed calls; its first entry
\* stands for the state before the first call.

HistEntry(op, n) ==
    [op |-> op, err |-> err', after |-> store'[insDb], printed |-> printed', n |-> n]

Calling ==
    /\ pc = "client"
    /\ insPc = "idle"
    /\ Len(hist) <= MaxCalls

Called(op) ==
    /\ hist' = Append(hist, HistEntry(op, 0))
    /\ UNCHANGED <<pc, cfgVars, params, insVars, stages, reported>>

ClientCreate == Calling /\ createSampleTable(insDb) /\ Called("create")

ClientDrop == Calling /\ deleteSampleTableIfExists(insDb) /\ Called("drop")

ClientSelect == Calling /\ selectDataInSampleTable(insDb) /\ Called("select")

ClientCleanup == Calling /\ cleanupSampleTabledb(insDb) /\ Called("delete")

ClientLiteral == Calling /\ insertDataAndSelectThem(insDb) /\ Called("literal")

ClientInsert ==
    /\ Calling
    /\ insertSampleDataCall(insDb)
    /\ UNCHANGED <<pc, cfgVars, params, err, lowErr, handle, store, stages,
                   reported, printed, hist>>

ClientInsertDone ==
    /\ pc = "client"
    /\ insertSampleDataReturn
    /\ printed' = {}
    /\ UNCHANGED <<pc, cfgVars, params, err, lowErr, handle, store, stages, reported>>
    /\ hist' = Append(hist, HistEntry("insert", insI))

\* The tables a session can find: none, an empty one, the one a run of
\* showExamplesWithSqlLite leaves, the one insertSampleData leaves.
ClientStores ==
    {PgFresh, [PgFresh EXCEPT !.table = TRUE], LiteLeftover, PgLeftover}

InitOps ==
    /\ InitCommon
    /\ pc = "client"
    /\ args = <<>>
    /\ cfgFile = <<>>
    /\ cfgOpens = TRUE
    /\ handle = [b \in Backends |-> "open"]
    /\ insDb \in Backends
    /\ \E st \in ClientStores : store = [b \in Backends |-> st]
    /\ hist = <<[op |-> "init", err |-> Nil, after |-> store[insDb],
                 printed |-> {}, n |-> 0]>>

NextOps ==
    \/ ClientCreate \/ ClientDrop \/ ClientSelect \/ ClientCleanup
    \/ ClientLiteral \/ ClientInsert \/ ClientInsertDone \/ insertSampleData

SpecOps == InitOps /\ [][NextOps]_vars

\* ------------------------------------------------------------ properties

\* The two ways of running loadPgParams agree: line by line (SpecCfg) and as
\* one step (main).
LoadAgrees ==
    pc \in {"cfg_ret", "cfg_panic"} =>
        LET r == loadPgParams(cfgOpens, cfgFile)
        IN  /\ (pc = "cfg_panic") = (r.end = "panic")
            /\ out = r.out
            /\ err = r.err
            /\ lowErr = r.low

ExecFailure ==
    err # Nil /\ err.msg = "Failed to insert sample data in the sample table."

\* C1: when insertSampleData returns because stmt.Exec failed for a row, the
\* transaction has been rolled back and the returned error is not nil.
C1_RolledBackOnExecFailure ==
    (insPc = "ret" /\ ExecFailure) => (tx.state = "rolledback" /\ err # Nil)

\* An insertSampleData that failed on a key that was already used.
Collided(e) ==
    /\ e.op = "insert"
    /\ e.err # Nil
    /\ e.err.cause = LibError("UNIQUE constraint failed: foo.id")

\* C2: a select that follows an insertSampleData that failed on a used key
\* prints exactly the rows table foo had before that call.
C2_FailedBatchInvisible ==
    \A k \in 3..Len(hist) :
        (Collided(hist[k - 1]) /\ hist[k].op = "select" /\ hist[k].err = Nil)
            => hist[k].printed = hist[k - 2].after.rows

\* C2, its case: the batch had executed rows before it hit the used key, and
\* the select that follows prints rows.
C2_Witness ==
    \E k \in 3..Len(hist) :
        /\ Collided(hist[k - 1])
        /\ hist[k - 1].n >= 1
        /\ hist[k].op = "select"
        /\ hist[k].err = Nil
        /\ hist[k].printed # {}

LitePcs ==
    {"lite_open", "lite_create", "lite_insert", "lite_select", "lite_cleanup",
     "lite_literal", "lite_close"}

\* The pipeline of b has ended, by a return or with the process.
Ended(b) ==
    IF b = "lite" THEN pc \notin LitePcs
    ELSE pc \in {"done", "exited"} /\ stages["pg"] # <<>>

\* C3: a pipeline whose open step succeeded has closed its session handle
\* when it ends.
C3_ClosedAtEnd ==
    \A b \in Backends : (Ended(b) /\ handle[b] # "unopened") => handle[b] = "closed"

\* The stages of a pipeline without the deferred close.
Body(ss) ==
    IF ss # <<>> /\ ss[Len(ss)] = "close" THEN SubSeq(ss, 1, Len(ss) - 1) ELSE ss

\* C4, as claimed: when main returns after a stage of showExamplesWithSqlLite
\* failed, showExamplesWithPostgres has been run.
C4_PostgresAlwaysRuns ==
    (pc = "done" /\ reported["lite"] # <<>>) => stages["pg"] # <<>>

\* C4, amended: when a stage of showExamplesWithSqlLite returns an error, the
\* error is reported once, the failed stage is the last one the pipeline runs
\* (but for the deferred close), and main goes on: when the process ends,
\* showExamplesWithPostgres has been run, with the default parameters when no
\* file is named, unless loadPgParams returned an error, which main reported.
C4_HaltsAndGoesOn ==
    reported["lite"] # <<>> =>
        /\ Len(reported["lite"]) = 1
        /\ reported["lite"][1].err # Nil
        /\ Body(stages["lite"]) # <<>>
        /\ Body(stages["lite"])[Len(Body(stages["lite"]))] = reported["lite"][1].stage
        /\ pc \in {"done", "exited"} => (stages["pg"] # <<>> \/ reported["main"] # <<>>)
        /\ (stages["pg"] # <<>> /\ args = <<>>) => params = DefaultParams

\* C4, its case: a stage of the embedded pipeline failed, parameters were
\* loaded from a file and the client/server pipeline has run.
C4_Witness ==
    /\ pc = "done"
    /\ reported["lite"] # <<>>
    /\ args # <<>>
    /\ Len(stages["pg"]) > 1

\* C5: no failure ends the process from inside a stage.
C5_NeverExits == pc # "exited"

NoFailure(b) == Ended(b) /\ stages[b] # <<>> /\ reported[b] = <<>> /\ pc # "exited"

ClaimedStages ==
    <<"open", "drop", "create", "insert", "select", "lookup", "delete",
      "literal_insert", "select", "close">>

C7_ZeroOnBadPort ==
    (pc = "cfg_ret" /\ err # Nil /\ lowErr = LibError("strconv.Atoi: invalid syntax"))
        => out = ZeroPostgresDb

\* C8: when initDb has returned a session without error, the store at the
\* path is empty.
C8_EmptyAfterOpen ==
    (pc = "lite_create" /\ stages["lite"] = <<"open">>) => store["lite"] = EmptyStore

\* C9: an error that an operation returns because of a library error has that
\* library error in its causal chain.
C9_CauseKept ==
    (err # Nil /\ lowErr # Nil) => lowErr \in Chain(err)

\* C10: loadPgParams never aborts with a runtime failure on a line.
C10_NoPanic == pc # "cfg_panic"

====
